---- MODULE Spec2Model ----
(***************************************************************************)
(* Atom quality scoring and sequence quality comparison of the YARA-X      *)
(* compiler (yara-x/src/compiler/atoms/quality.rs).                        *)
(*                                                                         *)
(* SpecAtom drives masked_atom_quality / atom_quality over bounded byte    *)
(* and mask sequences.  SpecSeq drives SeqQuality::min, seq_quality and    *)
(* SeqQuality::partial_cmp over bounded SeqQuality values.                 *)
(***************************************************************************)
EXTENDS Integers, Sequences, FiniteSets, TLC

VARIABLES bytes, masks, q, op, lhs, rhs, ord, rev

vars == <<bytes, masks, q, op, lhs, rhs, ord, rev>>

atomVars == <<bytes, masks, q, op>>

seqVars == <<lhs, rhs, ord, rev>>

(***************************************************************************)
(* Bounds.                                                                 *)
(***************************************************************************)
\* Longest byte / mask sequence drawn from the small alphabets.
MaxLen == 3

\* Largest min_atom_len of the SeqQuality values that are compared.
MaxAtomLen == 3

\* Largest number of literals in a Seq handed to seq_quality.
MaxSeqLits == 2

(***************************************************************************)
(* Option<T>: None is the empty tuple, Some(x) the one-element tuple.      *)
(***************************************************************************)
None == <<>>

Some(x) == <<x>>

IsSome(o) == Len(o) = 1

Unwrap(o) == o[1]

\* Marks a result variable that holds no result yet.
NoResult == <<"no", "result">>

(***************************************************************************)
(* u8 helpers.                                                             *)
(***************************************************************************)
Byte == 0..255

RECURSIVE count_ones(_)
\* u8::count_ones: number of one bits.
count_ones(m) == IF m = 0 THEN 0 ELSE (m % 2) + count_ones(m \div 2)

\* u8::count_zeros: number of zero bits of the 8-bit value.
count_zeros(m) == 8 - count_ones(m)

(***************************************************************************)
(* masked_atom_quality                                                     *)
(***************************************************************************)
\* MaskedIncrement with the masked and non-masked bit counts swapped.
MaskedIncrementSwapped(mask) == 2 * count_zeros(mask) - count_ones(mask)

\* Increment for a position with at least one masked bit (line 52).
MaskedIncrement(mask) == 2 * count_ones(mask) - count_zeros(mask)

\* ByteIncrement with 0xcc left out of the list of common values.
ByteIncrementNoCC(byte) ==
    IF byte \in {32, 144, 255} THEN 12
    ELSE IF byte = 0 THEN 6
    ELSE IF (byte >= 97 /\ byte <= 122) \/ (byte >= 65 /\ byte <= 90) THEN 18
    ELSE 20

\* Increment for a non-masked byte, the match of lines 61-83.
ByteIncrement(byte) ==
    IF byte \in {32, 144, 204, 255} THEN 12
    ELSE IF byte = 0 THEN 6
    ELSE IF (byte >= 97 /\ byte <= 122) \/ (byte >= 65 /\ byte <= 90) THEN 18
    ELSE 20

\* State of the loop: q, the set of bits that are 1 in bytes_present, and
\* atom_len.
LoopStart == [q |-> 0, bytes_present |-> {}, atom_len |-> 0]

\* One iteration of the loop body (lines 46-87).
LoopBody(st, byte, mask) ==
    IF count_zeros(mask) > 0
    THEN [st EXCEPT !.q = st.q + MaskedIncrement(mask),
                    !.atom_len = st.atom_len + 1]
    ELSE [st EXCEPT !.q = st.q + ByteIncrement(byte),
                    !.bytes_present = st.bytes_present \cup {byte},
                    !.atom_len = st.atom_len + 1]

RECURSIVE ZipLoop(_, _, _)
\* for (byte, mask) in bytes.zip(masks): zip stops as soon as either
\* iterator is exhausted.
ZipLoop(bs, ms, st) ==
    IF bs = <<>> THEN st
    ELSE IF ms = <<>> THEN st
    ELSE ZipLoop(Tail(bs), Tail(ms), LoopBody(st, Head(bs), Head(ms)))

\* bytes_present.first_one(): index of the lowest bit that is set.
first_one(present) == CHOOSE b \in present : \A c \in present : b <= c

\* UniqueAdjust with the test unique_bytes == 1 written as unique_bytes >= 1.
UniqueAdjustAtLeastOne(st) ==
    LET unique_bytes == Cardinality(st.bytes_present)
    IN  IF unique_bytes >= 1
        THEN IF first_one(st.bytes_present) \in {0, 32, 144, 204, 255}
             THEN st.q - 10 * st.atom_len
             ELSE st.q + 2
        ELSE st.q + 2 * unique_bytes

\* The adjustment of lines 89-110 applied to the state left by the loop.
UniqueAdjust(st) ==
    LET unique_bytes == Cardinality(st.bytes_present)
    IN  IF unique_bytes = 1
        THEN IF first_one(st.bytes_present) \in {0, 32, 144, 204, 255}
             THEN st.q - 10 * st.atom_len
             ELSE st.q + 2
        ELSE st.q + 2 * unique_bytes

masked_atom_quality(bs, ms) == UniqueAdjust(ZipLoop(bs, ms, LoopStart))

\* atom_quality zips the bytes with iter::repeat(&0xff); the zip consumes
\* exactly one 0xff per byte.
atom_quality(bs) == masked_atom_quality(bs, [i \in 1..Len(bs) |-> 255])

(***************************************************************************)
(* Inputs of the scorer.                                                   *)
(***************************************************************************)
\* Byte values of the small alphabet: one or two of every class of the
\* match in lines 61-83.
ByteSet == {0, 1, 2, 32, 97}

\* Masks of the small alphabet: ??, ?X, 7 known bits, fully known.
MaskSet == {0, 15, 254, 255}

SeqsUpTo(S, n) == UNION {[1..k -> S] : k \in 0..n}

\* The examples of the documentation comment (lines 23-30): bytes, masks and
\* the quality the comment gives.  A masked nibble or byte has value bits 0.
DocExamples ==
    { << <<1, 0, 3>>, <<255, 240, 255>>, 48 >>,
      << <<1, 2>>, <<255, 255>>, 44 >>,
      << <<1, 0, 3, 4>>, <<255, 0, 15, 255>>, 36 >>,
      << <<97, 98>>, <<255, 255>>, 40 >>,
      << <<97, 97>>, <<255, 255>>, 38 >>,
      << <<1, 0, 3>>, <<255, 0, 255>>, 36 >>,
      << <<0, 1>>, <<255, 255>>, 30 >>,
      << <<1>>, <<255>>, 21 >> }

DocAtoms == { <<e[1], e[2]>> : e \in DocExamples }

\* Every single position (all 256 values under all 256 masks), every pair of
\* short sequences over the small alphabets, and the documented atoms.
AtomInputs ==
    { << <<b>>, <<m>> >> : b \in Byte, m \in Byte }
    \cup (SeqsUpTo(ByteSet, MaxLen) \X SeqsUpTo(MaskSet, MaxLen))
    \cup DocAtoms

InitAtom ==
    /\ \E in \in AtomInputs : bytes = in[1] /\ masks = in[2]
    /\ q = NoResult
    /\ op = "none"
    /\ lhs = None /\ rhs = None /\ ord = NoResult /\ rev = NoResult

CallMaskedAtomQuality ==
    /\ q' = masked_atom_quality(bytes, masks)
    /\ op' = "masked_atom_quality"
    /\ UNCHANGED <<bytes, masks, seqVars>>

CallAtomQuality ==
    /\ q' = atom_quality(bytes)
    /\ op' = "atom_quality"
    /\ UNCHANGED <<bytes, masks, seqVars>>

NextAtom == CallMaskedAtomQuality \/ CallAtomQuality

SpecAtom == InitAtom /\ [][NextAtom]_vars

(***************************************************************************)
(* Properties of the scorer.                                               *)
(***************************************************************************)
Min2(a, b) == IF a <= b THEN a ELSE b

\* Effective length L of the atom.
RefL(vs, ms) == Min2(Len(vs), Len(ms))

RefBit(m, k) == (m \div (2 ^ k)) % 2

RefOnes(m) == Cardinality({k \in 0..7 : RefBit(m, k) = 1})

RefZeros(m) == Cardinality({k \in 0..7 : RefBit(m, k) = 0})

RefLetter(v) == v \in 97..122 \/ v \in 65..90

RefContribution(v, m) ==
    IF RefZeros(m) > 0 THEN 2 * RefOnes(m) - RefZeros(m)
    ELSE IF v \in {32, 144, 204, 255} THEN 12
    ELSE IF v = 0 THEN 6
    ELSE IF RefLetter(v) THEN 18
    ELSE 20

RECURSIVE RefSum(_, _, _)
RefSum(vs, ms, n) ==
    IF n = 0 THEN 0 ELSE RefSum(vs, ms, n - 1) + RefContribution(vs[n], ms[n])

\* Distinct values seen at mask-0xFF positions.
RefKnown(vs, ms) == {vs[i] : i \in {j \in 1..RefL(vs, ms) : ms[j] = 255}}

RefAdjust(vs, ms) ==
    LET K == RefKnown(vs, ms)
        U == Cardinality(K)
    IN  IF U = 1 /\ K \subseteq {0, 32, 144, 204, 255} THEN -10 * RefL(vs, ms)
        ELSE IF U = 1 THEN 2
        ELSE 2 * U

RefScore(vs, ms) == RefSum(vs, ms, RefL(vs, ms)) + RefAdjust(vs, ms)

\* C1: masked_atom_quality returns exactly the reference score: the sum of
\* the per-position contributions over the first L positions plus the
\* uniqueness adjustment.
C1_ReferenceScore ==
    op = "masked_atom_quality" => q = RefScore(bytes, masks)

\* C1 witness: unequal input lengths, two effective positions, one of them
\* masked, a single distinct known byte that is a common one (penalty).
C1_Witness ==
    /\ op = "masked_atom_quality"
    /\ Len(bytes) > Len(masks)
    /\ RefL(bytes, masks) = 2
    /\ RefKnown(bytes, masks) = {0}
    /\ \E i \in 1..2 : masks[i] = 15
    /\ q = -10

IsPartial(m) == m # 0 /\ m # 255

WithMask(ms, i, m) == [ms EXCEPT ![i] = m]

\* C4 as stated: at every position, fully known scores strictly above any
\* partial mask, which scores strictly above fully wildcarded.
C4_Original ==
    op = "masked_atom_quality" =>
        \A i \in 1..RefL(bytes, masks) :
            IsPartial(masks[i]) =>
                /\ masked_atom_quality(bytes, WithMask(masks, i, 255)) > q
                /\ q > masked_atom_quality(bytes, WithMask(masks, i, 0))

\* C4 amended: at every position a partial mask scores strictly above the
\* fully wildcarded one, and the fully known byte scores strictly above any
\* partial mask when its value is not 0x00, 0x20, 0x90, 0xCC or 0xFF.
C4_Amended ==
    op = "masked_atom_quality" =>
        \A i \in 1..RefL(bytes, masks) :
            IsPartial(masks[i]) =>
                /\ q > masked_atom_quality(bytes, WithMask(masks, i, 0))
                /\ bytes[i] \notin {0, 32, 144, 204, 255} =>
                       masked_atom_quality(bytes, WithMask(masks, i, 255)) > q

\* C4 witness: a three-position atom scored with a 7-bit mask on a byte that
\* is not a common one, next to a fully known common byte.
C4_Witness ==
    /\ op = "masked_atom_quality"
    /\ RefL(bytes, masks) = 3
    /\ \E i \in 1..3 : masks[i] = 254 /\ bytes[i] = 97
    /\ \E i \in 1..3 : masks[i] = 255 /\ bytes[i] = 0

Range(s) == {s[i] : i \in 1..Len(s)}

\* Bytes that are appended: the small alphabet, the remaining common
\* values and the ends of the letter ranges.
AppendBytes == ByteSet \cup {3, 65, 90, 122, 144, 204, 255}

\* C5: appending a byte that does not occur in a non-empty fully-known atom
\* strictly increases atom_quality.
C5_Monotonic ==
    (op = "atom_quality" /\ bytes # <<>>) =>
        \A x \in AppendBytes \ Range(bytes) :
            atom_quality(Append(bytes, x)) > q

\* C5 witness: a scored atom of one repeated common byte (the penalised
\* case) that still has bytes left to append.
C5_Witness ==
    /\ op = "atom_quality"
    /\ bytes = <<0, 0>>
    /\ q = -8
    /\ AppendBytes \ Range(bytes) # {}

\* C6: masked_atom_quality returns the qualities given by the examples of
\* its documentation comment.
C6_DocExamples ==
    op = "masked_atom_quality" =>
        \A e \in DocExamples : (bytes = e[1] /\ masks = e[2]) => q = e[3]

(***************************************************************************)
(* u32 / usize / i32.  A u32 or usize value v is the pair <<v \div 2^16,   *)
(* v % 2^16>>, because u32::MAX and the usize products of the comparator   *)
(* exceed the integers TLC represents.  usize is 64 bits wide: the high    *)
(* limb of a usize stays below 2^48, which no product below reaches.       *)
(***************************************************************************)
Limb == 2 ^ 16

U32(n) == <<n \div Limb, n % Limb>>

U32_MAX == <<Limb - 1, Limb - 1>>

I32_MIN == -2147483647 - 1

\* a < b on u32 or usize values.
ULt(a, b) == a[1] < b[1] \/ (a[1] = b[1] /\ a[2] < b[2])

\* a <= b on u32 or usize values.
ULe(a, b) == a = b \/ ULt(a, b)

\* a > b on u32 or usize values.
UGt(a, b) == ULt(b, a)

\* x as usize: the same value in the wider type.
AsUsize(x) == x

\* x * 256 on usize.
UsizeMul256(x) == <<x[1] * 256 + (x[2] * 256) \div Limb, (x[2] * 256) % Limb>>

\* x + 1 on u32; wraps at u32::MAX where overflow checks are off (and panics
\* where they are on).
U32Add1(x) ==
    IF x = U32_MAX THEN U32(0)
    ELSE IF x[2] = Limb - 1 THEN <<x[1] + 1, 0>>
    ELSE <<x[1], x[2] + 1>>

(***************************************************************************)
(* SeqQuality                                                              *)
(***************************************************************************)
SeqQuality(seq_len, min_atom_len, min_atom_quality) ==
    [seq_len |-> seq_len, min_atom_len |-> min_atom_len,
     min_atom_quality |-> min_atom_quality]

\* SeqQuality::min with seq_len 0 in place of u32::MAX.
SeqQualityMinZeroLen == SeqQuality(U32(0), U32(0), I32_MIN)

\* SeqQuality::min()
SeqQualityMin == SeqQuality(U32_MAX, U32(0), I32_MIN)

Greater == "Greater"

Less == "Less"

Equal == "Equal"

\* CmpSameLen returning Equal for equal qualities and equal seq_len.
CmpSameLenEqual(self, other) ==
    IF self.min_atom_quality = other.min_atom_quality
    THEN IF ULt(self.seq_len, other.seq_len) THEN Some(Greater)
         ELSE IF self.seq_len = other.seq_len THEN Some(Equal)
         ELSE Some(Less)
    ELSE IF self.min_atom_quality > other.min_atom_quality THEN Some(Greater)
    ELSE Some(Less)

\* CmpSameLen preferring the longer sequence on equal qualities.
CmpSameLenLonger(self, other) ==
    IF self.min_atom_quality = other.min_atom_quality
    THEN IF UGt(self.seq_len, other.seq_len) THEN Some(Greater) ELSE Some(Less)
    ELSE IF self.min_atom_quality > other.min_atom_quality THEN Some(Greater)
    ELSE Some(Less)

\* The match of lines 149-159: both shortest atoms have the same length.
CmpSameLen(self, other) ==
    IF self.min_atom_quality = other.min_atom_quality
    THEN IF ULt(self.seq_len, other.seq_len) THEN Some(Greater) ELSE Some(Less)
    ELSE IF self.min_atom_quality > other.min_atom_quality THEN Some(Greater)
    ELSE Some(Less)

\* Lines 166-171: the shortest atom of self is one byte shorter.
CmpOneShorter(self, other) ==
    IF ULe(UsizeMul256(AsUsize(self.seq_len)), AsUsize(other.seq_len))
    THEN Some(Greater)
    ELSE Some(Less)

\* CmpOneLonger with <= in place of <.
CmpOneLongerLe(self, other) ==
    IF ULe(AsUsize(self.seq_len), UsizeMul256(AsUsize(other.seq_len)))
    THEN Some(Greater)
    ELSE Some(Less)

\* Lines 175-180: the shortest atom of self is one byte longer.
CmpOneLonger(self, other) ==
    IF ULt(AsUsize(self.seq_len), UsizeMul256(AsUsize(other.seq_len)))
    THEN Some(Greater)
    ELSE Some(Less)

\* Lines 185-191: the general case.
CmpGeneral(self, other) ==
    IF \/ self.min_atom_quality > other.min_atom_quality
       \/ UGt(self.min_atom_len, other.min_atom_len)
    THEN Some(Greater)
    ELSE Some(Less)

\* partial_cmp without the leading min_atom_quality test of lines 141-143.
partial_cmp_no_shortcut(self, other) ==
    IF self.min_atom_len = other.min_atom_len THEN CmpSameLen(self, other)
    ELSE IF U32Add1(self.min_atom_len) = other.min_atom_len
         THEN CmpOneShorter(self, other)
    ELSE IF self.min_atom_len = U32Add1(other.min_atom_len)
         THEN CmpOneLonger(self, other)
    ELSE CmpGeneral(self, other)

\* <SeqQuality as PartialOrd>::partial_cmp
partial_cmp(self, other) ==
    IF self.min_atom_quality > other.min_atom_quality THEN Some(Greater)
    ELSE IF self.min_atom_len = other.min_atom_len THEN CmpSameLen(self, other)
    ELSE IF U32Add1(self.min_atom_len) = other.min_atom_len
         THEN CmpOneShorter(self, other)
    ELSE IF self.min_atom_len = U32Add1(other.min_atom_len)
         THEN CmpOneLonger(self, other)
    ELSE CmpGeneral(self, other)

\* Ordering of Option<SeqQuality>, the type seq_quality returns: None is
\* below every Some, two Some compare by partial_cmp of their contents.
OptionPartialCmp(a, b) ==
    IF IsSome(a) /\ IsSome(b) THEN partial_cmp(Unwrap(a), Unwrap(b))
    ELSE IF IsSome(a) THEN Some(Greater)
    ELSE IF IsSome(b) THEN Some(Less)
    ELSE Some(Equal)

\* a > b as PartialOrd::gt evaluates it.
OptionGt(a, b) == OptionPartialCmp(a, b) = Some(Greater)

(***************************************************************************)
(* seq_quality.  A Seq holds Option<literals>: None for an infinite Seq,   *)
(* Some(set of literals) for a finite one; a literal is a byte sequence.   *)
(***************************************************************************)
SetMin(S) == CHOOSE x \in S : \A y \in S : x <= y

\* Seq::len()
SeqLen(seq) == IF IsSome(seq) THEN Some(Cardinality(Unwrap(seq))) ELSE None

\* Seq::min_literal_len()
MinLiteralLen(seq) ==
    IF IsSome(seq) /\ Unwrap(seq) # {}
    THEN Some(SetMin({Len(l) : l \in Unwrap(seq)}))
    ELSE None

\* seq.literals().unwrap_or(&[]).iter().map(atom_quality).min()
\*     .unwrap_or(i32::MIN)
MinAtomQuality(seq) ==
    IF IsSome(seq) /\ Unwrap(seq) # {}
    THEN SetMin({atom_quality(l) : l \in Unwrap(seq)})
    ELSE I32_MIN

\* seq_quality returning the sentinel for an infinite Seq.
seq_quality_sentinel(seq) ==
    IF SeqLen(seq) = None THEN Some(SeqQualityMin)
    ELSE Some(SeqQuality(
             U32(Unwrap(SeqLen(seq))),
             IF IsSome(MinLiteralLen(seq))
                 THEN U32(Unwrap(MinLiteralLen(seq))) ELSE U32(0),
             MinAtomQuality(seq)))

\* seq_quality
seq_quality(seq) ==
    IF SeqLen(seq) = None THEN None
    ELSE Some(SeqQuality(
             U32(Unwrap(SeqLen(seq))),
             IF IsSome(MinLiteralLen(seq))
                 THEN U32(Unwrap(MinLiteralLen(seq))) ELSE U32(0),
             MinAtomQuality(seq)))

(***************************************************************************)
(* Inputs of the selector.                                                 *)
(***************************************************************************)
\* Atom counts: small ones, both sides of the factor 256 for counts 1 and 2,
\* and the largest count.
SeqLens == {U32(n) : n \in {0, 1, 2, 255, 256, 257, 512}} \cup {U32_MAX}

AtomLens == {U32(n) : n \in 0..MaxAtomLen}

\* Qualities: the smallest i32, atom_quality("\0\0\0\x01"),
\* atom_quality("abc").
Qualities == {I32_MIN, 42, 60}

SeqQualityValues ==
    {SeqQuality(s, l, m) : s \in SeqLens, l \in AtomLens, m \in Qualities}

\* Literals of test_seq_quality: "a", "ab", "abc", "abcd", "\0\0\0\0" and
\* "\0\0\0\x01".
Literals ==
    {<<97>>, <<97, 98>>, <<97, 98, 99>>, <<97, 98, 99, 100>>,
     <<0, 0, 0, 0>>, <<0, 0, 0, 1>>}

Seqs ==
    {Some(S) : S \in {T \in SUBSET Literals : Cardinality(T) <= MaxSeqLits}}
    \cup {None}

InitSeq ==
    /\ lhs \in {Some(v) : v \in SeqQualityValues}
    /\ rhs \in {Some(v) : v \in SeqQualityValues}
    /\ ord = NoResult /\ rev = NoResult
    /\ bytes = <<>> /\ masks = <<>> /\ q = NoResult /\ op = "none"

\* lhs = SeqQuality::min()
MinLhs ==
    /\ ord = NoResult
    /\ lhs' = Some(SeqQualityMin)
    /\ ord' = NoResult /\ rev' = NoResult
    /\ UNCHANGED <<rhs, atomVars>>

\* rhs = SeqQuality::min()
MinRhs ==
    /\ ord = NoResult
    /\ rhs' = Some(SeqQualityMin)
    /\ ord' = NoResult /\ rev' = NoResult
    /\ UNCHANGED <<lhs, atomVars>>

\* lhs = seq_quality(seq)
SeqQualityLhs ==
    /\ ord = NoResult
    /\ \E seq \in Seqs : lhs' = seq_quality(seq)
    /\ ord' = NoResult /\ rev' = NoResult
    /\ UNCHANGED <<rhs, atomVars>>

\* rhs = seq_quality(seq)
SeqQualityRhs ==
    /\ ord = NoResult
    /\ \E seq \in Seqs : rhs' = seq_quality(seq)
    /\ ord' = NoResult /\ rev' = NoResult
    /\ UNCHANGED <<lhs, atomVars>>

\* ord = lhs.partial_cmp(rhs), rev = rhs.partial_cmp(lhs).  The operands
\* are set before the comparison is made.
Compare ==
    /\ ord = NoResult
    /\ ord' = OptionPartialCmp(lhs, rhs)
    /\ rev' = OptionPartialCmp(rhs, lhs)
    /\ UNCHANGED <<lhs, rhs, atomVars>>

NextSeq == MinLhs \/ MinRhs \/ SeqQualityLhs \/ SeqQualityRhs \/ Compare

SpecSeq == InitSeq /\ [][NextSeq]_vars

(***************************************************************************)
(* Properties of the selector.                                             *)
(***************************************************************************)
\* A comparison of two present SeqQuality values has been made.
Compared == ord # NoResult /\ IsSome(lhs) /\ IsSome(rhs)

A == Unwrap(lhs)

B == Unwrap(rhs)

\* The number a small u32 stands for.
ToNat(x) == x[1] * Limb + x[2]

\* 256 * a <= b for u32 values a and b, by dividing b.
Ref256Le(a, b) ==
    a[1] < 256 /\ a[1] * Limb + a[2] <= b[1] * 256 + (b[2] \div 256)

\* C2: the sentinel SeqQuality::min() is never Greater than anything, and
\* against every other value it is Less while that value is Greater.
C2_SentinelLoses ==
    (Compared /\ A = SeqQualityMin) =>
        /\ ord # Some(Greater)
        /\ B # SeqQualityMin => (ord = Some(Less) /\ rev = Some(Greater))

\* C2 witness: the sentinel compared with a value of the smallest quality
\* whose shortest atom is one byte long (the rule with the factor 256).
C2_Witness ==
    /\ Compared
    /\ A = SeqQualityMin
    /\ B = SeqQuality(U32(256), U32(1), I32_MIN)
    /\ ord = Some(Less)
    /\ rev = Some(Greater)

\* C3: the None that seq_quality returns for an infinite Seq is never
\* greater than a present value and every present value, the sentinel
\* included, is greater than it; two present values compare as partial_cmp
\* compares their contents.
C3_NoneNeverWins ==
    ord # NoResult =>
        /\ (lhs = seq_quality(None) /\ IsSome(rhs)) =>
               (ord # Some(Greater) /\ rev = Some(Greater))
        /\ (IsSome(lhs) /\ IsSome(rhs)) =>
               (ord = partial_cmp(A, B) /\ rev = partial_cmp(B, A))

\* C3 witness: seq_quality of an infinite Seq compared with the sentinel.
C3_Witness ==
    /\ ord # NoResult
    /\ ord = Some(Less)
    /\ rev = Some(Greater)
    /\ lhs = None
    /\ rhs = Some(SeqQualityMin)

\* A's quality does not exceed B's and A's shortest atom is one byte longer.
OneLongerCase ==
    /\ Compared
    /\ A.min_atom_quality <= B.min_atom_quality
    /\ ToNat(A.min_atom_len) = ToNat(B.min_atom_len) + 1

\* C7 as stated: in the one-byte-longer case A is Greater unless
\* B.seq_len >= 256 * A.seq_len, in which case it is Less.
C7_Original ==
    OneLongerCase =>
        ord = IF Ref256Le(A.seq_len, B.seq_len) THEN Some(Less)
              ELSE Some(Greater)

\* C7 amended: in the one-byte-longer case A is Greater unless
\* A.seq_len >= 256 * B.seq_len, in which case it is Less.
C7_Amended ==
    OneLongerCase =>
        ord = IF Ref256Le(B.seq_len, A.seq_len) THEN Some(Less)
              ELSE Some(Greater)

\* C7 witness: A has exactly 256 times the atoms of B and loses.
C7_Witness ==
    /\ OneLongerCase
    /\ A.seq_len = U32(256)
    /\ B.seq_len = U32(1)
    /\ ord = Some(Less)

\* C8: with equal min_atom_len and equal min_atom_quality the value with
\* the smaller seq_len is Greater and the other one Less.
C8_FewerAtomsWin ==
    ( /\ Compared
      /\ A.min_atom_len = B.min_atom_len
      /\ A.min_atom_quality = B.min_atom_quality
      /\ ULt(A.seq_len, B.seq_len) ) =>
        (ord = Some(Greater) /\ rev = Some(Less))

\* C8 witness: one atom against the largest count, same length and quality.
C8_Witness ==
    /\ Compared
    /\ A = SeqQuality(U32(1), U32(2), 60)
    /\ B = SeqQuality(U32_MAX, U32(2), 60)
    /\ ord = Some(Greater)
    /\ rev = Some(Less)

\* C9: when A has the strictly higher quality while B's shortest atom is one
\* byte longer and B has fewer than 256 times the atoms of A, each of the
\* two is Greater than the other.
C9_BothGreater ==
    ( /\ Compared
      /\ A.min_atom_quality > B.min_atom_quality
      /\ ToNat(B.min_atom_len) = ToNat(A.min_atom_len) + 1
      /\ ~ Ref256Le(A.seq_len, B.seq_len) ) =>
        (ord = Some(Greater) /\ rev = Some(Greater))

\* C9 witness: the qualities of the sequences ["abc"] and ["\0\0\0\x01"],
\* the pair of test_seq_quality.
C9_Witness ==
    /\ Compared
    /\ ord = Some(Greater)
    /\ rev = Some(Greater)
    /\ lhs = seq_quality(Some({<<97, 98, 99>>}))
    /\ rhs = seq_quality(Some({<<0, 0, 0, 1>>}))
    /\ A.min_atom_quality > B.min_atom_quality

\* C10: partial_cmp returns Some(Greater) or Some(Less), and Some(Less) in
\* both directions for two equal values.
C10_NeverEqual ==
    Compared =>
        /\ ord \in {Some(Greater), Some(Less)}
        /\ rev \in {Some(Greater), Some(Less)}
        /\ A = B => (ord = Some(Less) /\ rev = Some(Less))

\* C10 witness: two equal values compared.
C10_Witness ==
    /\ Compared
    /\ A = B
    /\ A = SeqQuality(U32(2), U32(1), 60)
    /\ ord = Some(Less)
    /\ rev = Some(Less)

====
